---- MODULE Spec2Model ----
(***************************************************************************)
(* Timeline aggregation core of packages/timeline: the provider registry   *)
(* (TimelineService), the request router (TimelineService.getTimeline) and *)
(* the aggregate store (TimelineTreeWidget.timelinesBySource with          *)
(* TimelineAggregate), modelled from timeline-service.ts.                  *)
(*                                                                         *)
(* JavaScript runs the handlers to completion; the only suspension point   *)
(* is the await of the provider's promise in loadTimelineForSource.  Each  *)
(* action below is therefore either a whole synchronous handler or the     *)
(* continuation of loadTimelineForSource after its await.                  *)
(***************************************************************************)
EXTENDS Integers, Sequences, FiniteSets, Bags, TLC

(***************************************************************************)
(* Bounds of the model.                                                    *)
(***************************************************************************)
\* registrations made over a run (provider objects handed to the registry)
MaxRegs == 2
\* loadTimelineForSource calls awaiting their provider at the same time
MaxPending == 2
\* items of one aggregate
MaxItems == 2
\* provideTimeline invocations over a run
MaxRequests == 2

(***************************************************************************)
(* Values.                                                                 *)
(***************************************************************************)
\* JavaScript's undefined, where a string is expected (cursor, item source)
Undefined == "undefined"

\* provider ids
Ids == {"A", "B"}

\* resource URIs (URI objects: scheme and path)
UriA == [scheme |-> "file", path |-> "/a"]
UriB == [scheme |-> "http", path |-> "/b"]
Uris == {UriA, UriB}
\* no URI: the event carries none, no editor is focused
NoUri == [scheme |-> "", path |-> ""]

\* uri.toString() and new URI(string)
UriToString(uri) ==
    IF uri = UriA THEN "file:/a" ELSE IF uri = UriB THEN "http:/b" ELSE ""
ParseUri(str) ==
    IF str = "file:/a" THEN UriA ELSE IF str = "http:/b" THEN UriB ELSE NoUri
UriStrings == {UriToString(u) : u \in Uris}

\* TimelineProvider.scheme: string | string[]
StringScheme(s) == [kind |-> "string", names |-> <<s>>]
ArrayScheme(ss) == [kind |-> "array", names |-> ss]
Schemes == {StringScheme("file"), StringScheme("*"), ArrayScheme(<<"file">>)}

\* What the provider's own dispose() does when the registry calls it on
\* replacement: "detach" disposes the provider's change emitter (its listeners,
\* the registry's forwarding listener included, are dropped), "keep" returns
\* without touching the emitter, "throws" throws before touching it.
Disposals == {"detach", "keep", "throws"}

\* a provider object: TimelineProvider
Provider(id, scheme, onDidChange, disposal) ==
    [id |-> id, scheme |-> scheme, onDidChange |-> onDidChange,
     disposal |-> disposal]

\* the provider objects a host can hand to registerTimelineProvider
ProviderInputs ==
    {Provider(id, StringScheme("file"), FALSE, "keep") : id \in Ids}
    \cup {Provider(id, StringScheme("*"), TRUE, "detach") : id \in Ids}
    \cup {Provider(id, ArrayScheme(<<"file">>), TRUE, "throws") : id \in Ids}
    \cup {Provider(id, StringScheme("file"), TRUE, "keep") : id \in Ids}

\* TimelineTreeWidget.PAGE_SIZE
PAGE_SIZE == 20

\* The items a provider holds for a resource, as the provider returns them:
\* handle, timestamp and whatever the provider wrote into `source` (a foreign
\* id, nothing, its own id).
ItemsFor(id, uri) ==
    IF id = "A" /\ uri = UriA
    THEN {[handle |-> "a1", timestamp |-> 100, source |-> "B"],
          [handle |-> "a2", timestamp |-> 300, source |-> Undefined]}
    ELSE IF id = "A" /\ uri = UriB
    THEN {[handle |-> "b1", timestamp |-> 200, source |-> "A"]}
    ELSE IF id = "B" /\ uri = UriA
    THEN {[handle |-> "a3", timestamp |-> 200, source |-> "A"]}
    ELSE {}

\* the handles of the items that belong to a resource
HandlesFor(uri) ==
    {item.handle : item \in UNION {ItemsFor(id, uri) : id \in Ids}}

\* The continuation cursors a provider issues for a resource ("" is a string a
\* provider can return as a cursor).
CursorsFor(id, uri) ==
    IF id = "A" /\ uri = UriA THEN {"", "c1"}
    ELSE IF id = "A" /\ uri = UriB THEN {"d1"}
    ELSE {}

\* the sequences without repetition over a set of items
DistinctSeqs(S) ==
    {s \in UNION {[1..k -> S] : k \in 0..Cardinality(S)} :
        \A i, j \in 1..Len(s) : i # j => s[i] # s[j]}

\* Timeline: what provideTimeline of provider `id` can resolve with for `uri`
PagesFor(id, uri) ==
    [items : DistinctSeqs(ItemsFor(id, uri)),
     cursor : CursorsFor(id, uri) \cup {Undefined}]

\* how the promise of provideTimeline settles without a Timeline
\* (the code never looks at the cancellation token: CancellationToken.None)
Failures == {"reject", "noResult"}

\* TimelineChangeEvent as fired by a provider
ChangeEvents == [id : Ids, uri : UriStrings \cup {Undefined}, reset : BOOLEAN]

(***************************************************************************)
(* Pure functions.                                                         *)
(***************************************************************************)
\* mutant of StampSource: the items go on as the provider returned them
KeepSource(items, id) == items

\* getTimeline's .then: result.items.map(item => ({ ...item, source: provider.id }))
StampSource(items, id) == [i \in 1..Len(items) |-> [items[i] EXCEPT !.source = id]]

\* One step of Array.prototype.sort with (a, b) => b.timestamp - a.timestamp:
\* x goes behind every element that does not compare after it (the sort is stable).
InsertDescending(sorted, x) ==
    LET ahead == {i \in 1..Len(sorted) : sorted[i].timestamp >= x.timestamp}
        k == IF ahead = {} THEN 0
             ELSE CHOOSE i \in ahead : \A j \in ahead : j <= i
    IN  SubSeq(sorted, 1, k) \o <<x>> \o SubSeq(sorted, k + 1, Len(sorted))

RECURSIVE SortDescending(_)
SortDescending(items) ==
    IF items = <<>> THEN <<>>
    ELSE InsertDescending(SortDescending(SubSeq(items, 1, Len(items) - 1)),
                          items[Len(items)])

\* mutant of Add: an item the aggregate already holds is not added again
AddDistinct(items, more) ==
    SortDescending(items \o SelectSeq(more,
        LAMBDA x : \A i \in 1..Len(items) : items[i] # x))

\* TimelineAggregate.add: push the page's items, then sort the whole array
Add(items, more) == SortDescending(items \o more)

\* the cursor TimelineAggregate's constructor and loadTimelineForSource store:
\* timelineResult.paging?.cursor
PagingCursor(page) == page.cursor

\* new TimelineAggregate(timeline)
NewAggregate(page, items) ==
    [items |-> items, cursor |-> PagingCursor(page)]

\* !!timeline.cursor
HasMore(cursor) == cursor # Undefined /\ cursor # ""

\* the scheme test of getTimeline: TRUE when the request goes on to the provider
SchemeAccepted(scheme, uri) ==
    IF scheme.kind = "string"
    THEN ~(scheme.names[1] # "*" /\ scheme.names[1] # uri.scheme)
    ELSE TRUE

(***************************************************************************)
(* State.                                                                  *)
(***************************************************************************)
VARIABLES
    regs,                   \* the provider objects registered so far, in order
    providers,              \* TimelineService.providers: id -> registration (0: none)
    providerSubscriptions,  \* TimelineService.providerSubscriptions: id -> registration whose subscription it holds (0: none)
    attached,               \* registrations whose forwarding listener is attached to their provider's change emitter
    listening,              \* TimelineWidget.init has put its listener on onDidChangeTimeline
    timelinesBySource,      \* TimelineTreeWidget.timelinesBySource: id -> aggregate object (0: none)
    aggs,                   \* the TimelineAggregate objects
    pending,                \* loadTimelineForSource calls suspended at their await
    requests,               \* provideTimeline invocations so far (counted for the bound)
    firedProviders,         \* events fired on onDidChangeProviders by the last operation
    firedTimeline,          \* events fired on onDidChangeTimeline by the last operation
    rendered,               \* the renderTimeline call of the last operation
    last                    \* the last operation and its inputs

vars == <<regs, providers, providerSubscriptions, attached, listening,
          timelinesBySource, aggs, pending, requests, firedProviders,
          firedTimeline, rendered, last>>

\* aggregate objects: one per map entry and one per suspended call is enough
Refs == 1..(Cardinality(Ids) + MaxPending)

NoAggregate == [items |-> <<>>, cursor |-> Undefined]
NoPage == [items |-> <<>>, cursor |-> Undefined]
NoRender == [source |-> Undefined, uri |-> "", items |-> <<>>, more |-> FALSE]

\* What an operation was and what it was given.  For the operations of a
\* loadTimelineForSource call: `timeline` is the aggregate object the call holds,
\* `cursor` the cursor of its request, `provider` the registration whose
\* provideTimeline it invoked, `stored` whether an aggregate was stored for the
\* source when the call began, `replaced` whether its continuation put its
\* aggregate in the place of another aggregate object of the map.
Last(op) ==
    [op |-> op, source |-> Undefined, uri |-> NoUri, reset |-> FALSE,
     outcome |-> "", page |-> NoPage, timeline |-> 0, provider |-> 0,
     cursor |-> Undefined, stored |-> FALSE, reg |-> 0, existing |-> 0,
     replaced |-> FALSE]

\* the aggregate stored for a source, as a value
Stored(source) ==
    IF timelinesBySource[source] = 0 THEN NoAggregate
    ELSE aggs[timelinesBySource[source]]

\* the aggregate objects something still refers to; the others are garbage
Live(map, calls) ==
    {map[s] : s \in Ids} \cup {c.timeline : c \in BagToSet(calls)}

Collect(heap, map, calls) ==
    [r \in Refs |-> IF r \in Live(map, calls) THEN heap[r] ELSE NoAggregate]

FreshRef(map, calls) ==
    CHOOSE r \in Refs \ Live(map, calls) : \A q \in Refs \ Live(map, calls) : r <= q

\* TimelineService.getSources, as the ids it lists
GetSources == {id \in Ids : providers[id] # 0}

\* TimelineService.getTimeline: the registration whose provideTimeline is
\* invoked, or 0 when it returns undefined
GetTimeline(id, uri) ==
    LET provider == providers[id]
    IN  IF provider = 0 THEN 0
        ELSE IF ~SchemeAccepted(regs[provider].scheme, uri) THEN 0
        ELSE provider

\* the state after construction: an empty registry, no widget
Init ==
    /\ regs = <<>>
    /\ providers = [id \in Ids |-> 0]
    /\ providerSubscriptions = [id \in Ids |-> 0]
    /\ attached = {}
    /\ listening = FALSE
    /\ timelinesBySource = [id \in Ids |-> 0]
    /\ aggs = [r \in Refs |-> NoAggregate]
    /\ pending = EmptyBag
    /\ requests = 0
    /\ firedProviders = <<>>
    /\ firedTimeline = <<>>
    /\ rendered = NoRender
    /\ last = Last("init")

(***************************************************************************)
(* The registry: TimelineService.                                          *)
(***************************************************************************)
\* existing.dispose() inside try/catch: the listeners left attached afterwards
DisposeExisting(existing, listeners) ==
    IF existing = 0 THEN listeners
    ELSE IF regs[existing].disposal = "detach" THEN listeners \ {existing}
    ELSE listeners

\* this.providerSubscriptions.set(id, provider.onDidChange(...)), when the
\* provider has a change event
SubscribeOnRegister(subs, id, k, provider) ==
    IF provider.onDidChange THEN [subs EXCEPT ![id] = k] ELSE subs

\* mutant of RegisterTimelineProvider: without the try/catch, the exception of
\* existing.dispose() ends the call before the provider is stored
RegisterUnlessDisposeThrows(provider) ==
    LET id == provider.id
        existing == providers[id]
        k == Len(regs) + 1
        thrown == existing # 0 /\ regs[existing].disposal = "throws"
        detached == DisposeExisting(existing, attached)
    IN  /\ Len(regs) < MaxRegs
        /\ regs' = Append(regs, provider)
        /\ providers' = IF thrown THEN providers ELSE [providers EXCEPT ![id] = k]
        /\ providerSubscriptions' =
               IF thrown THEN providerSubscriptions
               ELSE SubscribeOnRegister(providerSubscriptions, id, k, provider)
        /\ attached' = IF provider.onDidChange /\ ~thrown
                       THEN detached \cup {k} ELSE detached
        /\ firedProviders' = IF thrown THEN <<>>
                             ELSE <<[added |-> <<id>>, removed |-> <<>>]>>
        /\ firedTimeline' = <<>>
        /\ rendered' = NoRender
        /\ last' = [Last("register") EXCEPT !.source = id, !.reg = k,
                                           !.existing = existing]
        /\ UNCHANGED <<listening, timelinesBySource, aggs, pending, requests>>

\* registerTimelineProvider(provider)
RegisterTimelineProvider(provider) ==
    LET id == provider.id
        existing == providers[id]
        k == Len(regs) + 1
        detached == DisposeExisting(existing, attached)
    IN  /\ Len(regs) < MaxRegs
        /\ regs' = Append(regs, provider)
        /\ providers' = [providers EXCEPT ![id] = k]
        /\ providerSubscriptions' =
               SubscribeOnRegister(providerSubscriptions, id, k, provider)
        /\ attached' = IF provider.onDidChange THEN detached \cup {k} ELSE detached
        /\ firedProviders' = <<[added |-> <<id>>, removed |-> <<>>]>>
        /\ firedTimeline' = <<>>
        /\ rendered' = NoRender
        /\ last' = [Last("register") EXCEPT !.source = id, !.reg = k,
                                           !.existing = existing]
        /\ UNCHANGED <<listening, timelinesBySource, aggs, pending, requests>>

\* mutant of RevokeRegistration: the handle also announces a change of the
\* provider's timeline
RevokeFiringChange(k) ==
    LET id == regs[k].id
    IN  /\ k \in 1..Len(regs)
        /\ providers' = [providers EXCEPT ![id] = 0]
        /\ firedProviders' = <<[added |-> <<>>, removed |-> <<id>>]>>
        /\ firedTimeline' = <<[id |-> id, uri |-> Undefined, reset |-> TRUE]>>
        /\ rendered' = NoRender
        /\ last' = [Last("revoke") EXCEPT !.source = id, !.reg = k,
                                         !.existing = providers[id]]
        /\ UNCHANGED <<regs, providerSubscriptions, attached, listening,
                       timelinesBySource, aggs, pending, requests>>

\* the dispose of the Disposable that registration k returned
RevokeRegistration(k) ==
    LET id == regs[k].id
    IN  /\ k \in 1..Len(regs)
        /\ providers' = [providers EXCEPT ![id] = 0]
        /\ firedProviders' = <<[added |-> <<>>, removed |-> <<id>>]>>
        /\ firedTimeline' = <<>>
        /\ rendered' = NoRender
        /\ last' = [Last("revoke") EXCEPT !.source = id, !.reg = k,
                                         !.existing = providers[id]]
        /\ UNCHANGED <<regs, providerSubscriptions, attached, listening,
                       timelinesBySource, aggs, pending, requests>>

\* this.providerSubscriptions.delete(id): the entry goes, the Disposable it held
\* is not disposed
DeleteSubscription(subs, id) == [subs EXCEPT ![id] = 0]

\* mutant of UnregisterTimelineProvider: without the test for a registered id
UnregisterAlways(id) ==
    /\ providers' = [providers EXCEPT ![id] = 0]
    /\ providerSubscriptions' = DeleteSubscription(providerSubscriptions, id)
    /\ firedProviders' = <<[added |-> <<>>, removed |-> <<id>>]>>
    /\ firedTimeline' = <<>>
    /\ rendered' = NoRender
    /\ last' = [Last("unregister") EXCEPT !.source = id,
                                         !.existing = providers[id]]
    /\ UNCHANGED <<regs, attached, listening, timelinesBySource, aggs, pending,
                   requests>>

\* unregisterTimelineProvider(id)
UnregisterTimelineProvider(id) ==
    /\ IF providers[id] = 0
       THEN /\ firedProviders' = <<>>
            /\ UNCHANGED <<providers, providerSubscriptions>>
       ELSE /\ providers' = [providers EXCEPT ![id] = 0]
            /\ providerSubscriptions' = DeleteSubscription(providerSubscriptions, id)
            /\ firedProviders' = <<[added |-> <<>>, removed |-> <<id>>]>>
    /\ firedTimeline' = <<>>
    /\ rendered' = NoRender
    /\ last' = [Last("unregister") EXCEPT !.source = id,
                                         !.existing = providers[id]]
    /\ UNCHANGED <<regs, attached, listening, timelinesBySource, aggs, pending,
                   requests>>

(***************************************************************************)
(* The aggregate store: TimelineTreeWidget.                                *)
(***************************************************************************)
\* mutant of DeleteOnReset: the aggregate is deleted whatever reset is
DeleteAlways(map, source, reset) == [map EXCEPT ![source] = 0]

\* mutant of DeleteOnReset: the aggregate is never deleted
DeleteNever(map, source, reset) == map

\* if (reset) { this.timelinesBySource.delete(source); }
DeleteOnReset(map, source, reset) ==
    IF reset THEN [map EXCEPT ![source] = 0] ELSE map

\* const cursor = timeline?.cursor
CursorOf(timeline) == IF timeline = 0 THEN Undefined ELSE aggs[timeline].cursor

\* options of the request: { cursor: reset ? undefined : cursor, limit: PAGE_SIZE }
RequestOptions(cursor, reset) ==
    [cursor |-> IF reset THEN Undefined ELSE cursor, limit |-> PAGE_SIZE]

\* a call that has not been made
NoCall ==
    [source |-> Undefined, uri |-> NoUri, reset |-> FALSE,
     options |-> RequestOptions(Undefined, FALSE),
     timeline |-> 0, provider |-> 0, stored |-> FALSE]

\* loadTimelineForSource up to its await, on the store st = [map, calls, ...]:
\* the map after the reset, and the call suspended on the provider's promise when
\* getTimeline handed the request to a provider.  `stored` remembers whether an
\* aggregate was stored when the call began (history, no field of the program).
StartLoad(st, source, uri, reset) ==
    LET map == DeleteOnReset(st.map, source, reset)
        timeline == map[source]
        provider == GetTimeline(source, uri)
        call == [source |-> source, uri |-> uri, reset |-> reset,
                 options |-> RequestOptions(CursorOf(timeline), reset),
                 timeline |-> timeline, provider |-> provider,
                 stored |-> st.map[source] # 0]
    IN  [map |-> map,
         calls |-> IF provider = 0 THEN st.calls ELSE st.calls (+) SetToBag({call}),
         outcome |-> IF provider = 0 THEN "notApplicable" ELSE "invoked",
         call |-> call]

\* mutant of FanOut: the loop ends after its first source
FanOutOne(st, sources, uri, reset) ==
    IF sources = {} THEN st
    ELSE StartLoad(st, CHOOSE s \in sources : TRUE, uri, reset)

\* loadTimeLine: loadTimelineForSource for every source of getSources, none awaited
RECURSIVE FanOut(_, _, _, _)
FanOut(st, sources, uri, reset) ==
    IF sources = {} THEN st
    ELSE LET source == CHOOSE s \in sources : TRUE
         IN  FanOut(StartLoad(st, source, uri, reset), sources \ {source}, uri, reset)

Store ==
    [map |-> timelinesBySource, calls |-> pending, outcome |-> "", call |-> NoCall]

\* the provideTimeline invocations so far, those of st included
Issued(st) == requests + BagCardinality(st.calls) - BagCardinality(pending)

\* The registry of a host with one provider, of one item per resource and no
\* paging: small enough for one more request than MaxRequests.
SingleRegistry == <<Provider("B", StringScheme("file"), FALSE, "keep")>>

\* the provideTimeline invocations a run may make
RequestLimit == IF regs = SingleRegistry THEN MaxRequests + 1 ELSE MaxRequests

\* loadTimelineForSource(source, uri, reset), up to its await
LoadTimelineForSource(source, uri, reset) ==
    LET st == StartLoad(Store, source, uri, reset)
    IN  /\ listening
        /\ BagCardinality(st.calls) <= MaxPending
        /\ Issued(st) <= RequestLimit
        /\ requests' = Issued(st)
        /\ timelinesBySource' = st.map
        /\ pending' = st.calls
        /\ aggs' = Collect(aggs, st.map, st.calls)
        /\ firedProviders' = <<>>
        /\ firedTimeline' = <<>>
        /\ rendered' = NoRender
        /\ last' = [Last("loadTimelineForSource") EXCEPT
                        !.source = source, !.uri = uri, !.reset = reset,
                        !.outcome = st.outcome,
                        !.timeline = st.call.timeline,
                        !.provider = st.call.provider,
                        !.cursor = st.call.options.cursor,
                        !.stored = st.call.stored]
        /\ UNCHANGED <<regs, providers, providerSubscriptions, attached, listening>>

\* loadTimeLine(uri, reset)
LoadTimeLine(uri, reset) ==
    LET st == FanOut(Store, GetSources, uri, reset)
    IN  /\ listening
        /\ BagCardinality(st.calls) <= MaxPending
        /\ Issued(st) <= RequestLimit
        /\ requests' = Issued(st)
        /\ timelinesBySource' = st.map
        /\ pending' = st.calls
        /\ aggs' = Collect(aggs, st.map, st.calls)
        /\ firedProviders' = <<>>
        /\ firedTimeline' = <<>>
        /\ rendered' = NoRender
        /\ last' = [Last("loadTimeLine") EXCEPT !.uri = uri, !.reset = reset]
        /\ UNCHANGED <<regs, providers, providerSubscriptions, attached, listening>>

\* mutant of MergePage: the cursor is overwritten only by a cursor that is there
MergeKeepingCursor(aggregate, page, items) ==
    [aggregate EXCEPT !.items = Add(aggregate.items, items),
                      !.cursor = IF PagingCursor(page) = Undefined THEN @
                                 ELSE PagingCursor(page)]

\* timeline.add(items); timeline.cursor = timelineResult.paging?.cursor
MergePage(aggregate, page, items) ==
    [aggregate EXCEPT !.items = Add(aggregate.items, items),
                      !.cursor = PagingCursor(page)]

\* mutant of AggregateAfter: the continuation looks the aggregate up again
\* after the await and merges into the one that is stored by then
AggregateMergingStored(call, page, items) ==
    IF call.timeline # 0 THEN MergePage(aggs[call.timeline], page, items)
    ELSE IF timelinesBySource[call.source] # 0
    THEN MergePage(aggs[timelinesBySource[call.source]], page, items)
    ELSE NewAggregate(page, items)

\* the aggregate the continuation stores: `if (timeline) {...} else {...}`
AggregateAfter(call, page, items) ==
    IF call.timeline # 0 THEN MergePage(aggs[call.timeline], page, items)
    ELSE NewAggregate(page, items)

\* The continuation of loadTimelineForSource when the provider's promise
\* resolves with a Timeline: getTimeline's .then stamps the items, then the page
\* goes into the aggregate the call took from the map before its await, or into
\* a new one, which is put in the map and rendered.
ProvideTimelineResolves(call, page) ==
    LET items == StampSource(page.items, regs[call.provider].id)
        calls == pending (-) SetToBag({call})
        ref == IF call.timeline # 0 THEN call.timeline
               ELSE FreshRef(timelinesBySource, calls)
        heap == [aggs EXCEPT ![ref] = AggregateAfter(call, page, items)]
        map == [timelinesBySource EXCEPT ![call.source] = ref]
    IN  /\ call \in BagToSet(pending)
        /\ page \in PagesFor(regs[call.provider].id, call.uri)
        /\ call.timeline # 0 =>
               Len(aggs[call.timeline].items) + Len(page.items) <= MaxItems
        /\ pending' = calls
        /\ timelinesBySource' = map
        /\ aggs' = Collect(heap, map, calls)
        /\ rendered' = [source |-> call.source, uri |-> UriToString(call.uri),
                        items |-> heap[ref].items,
                        more |-> HasMore(heap[ref].cursor)]
        /\ firedProviders' = <<>>
        /\ firedTimeline' = <<>>
        /\ last' = [Last("settle") EXCEPT
                        !.source = call.source, !.uri = call.uri,
                        !.reset = call.reset, !.outcome = "page", !.page = page,
                        !.timeline = call.timeline, !.provider = call.provider,
                        !.cursor = call.options.cursor, !.stored = call.stored,
                        !.replaced = timelinesBySource[call.source] \notin {0, ref}]
        /\ UNCHANGED <<regs, providers, providerSubscriptions, attached, listening,
                       requests>>

\* The continuation of loadTimelineForSource when the provider's promise rejects
\* (the await throws) or resolves with undefined: nothing is stored or rendered.
ProvideTimelineFails(call, failure) ==
    LET calls == pending (-) SetToBag({call})
    IN  /\ call \in BagToSet(pending)
        /\ failure \in Failures
        /\ pending' = calls
        /\ aggs' = Collect(aggs, timelinesBySource, calls)
        /\ rendered' = NoRender
        /\ firedProviders' = <<>>
        /\ firedTimeline' = <<>>
        /\ last' = [Last("settle") EXCEPT
                        !.source = call.source, !.uri = call.uri,
                        !.reset = call.reset, !.outcome = failure,
                        !.timeline = call.timeline, !.provider = call.provider,
                        !.cursor = call.options.cursor, !.stored = call.stored]
        /\ UNCHANGED <<regs, providers, providerSubscriptions, attached, listening,
                       timelinesBySource, requests>>

(***************************************************************************)
(* The change notification bus and the widget listening to it.             *)
(***************************************************************************)
\* TimelineWidget.init: the widget subscribes to onDidChangeTimeline
WidgetInit ==
    /\ ~listening
    /\ listening' = TRUE
    /\ firedProviders' = <<>>
    /\ firedTimeline' = <<>>
    /\ rendered' = NoRender
    /\ last' = Last("widgetInit")
    /\ UNCHANGED <<regs, providers, providerSubscriptions, attached,
                   timelinesBySource, aggs, pending, requests>>

\* The provider of registration k fires its change event.  The registry's
\* listener e => onDidChangeTimelineEmitter.fire(e) forwards it as it is; the
\* listener of TimelineWidget.init, when there, loads the timeline of the
\* event's uri, or of the current editor (`editor`, read by that listener alone)
\* when the event has none.
ProviderFiresChange(k, event, editor) ==
    LET uri == IF event.uri # Undefined THEN ParseUri(event.uri) ELSE editor
        st == IF ~listening \/ uri = NoUri THEN Store
              ELSE FanOut(Store, GetSources, uri, event.reset)
    IN  /\ k \in attached
        /\ (~listening \/ event.uri # Undefined) => editor = NoUri
        /\ BagCardinality(st.calls) <= MaxPending
        /\ Issued(st) <= RequestLimit
        /\ requests' = Issued(st)
        /\ firedTimeline' = <<event>>
        /\ firedProviders' = <<>>
        /\ timelinesBySource' = st.map
        /\ pending' = st.calls
        /\ aggs' = Collect(aggs, st.map, st.calls)
        /\ rendered' = NoRender
        /\ last' = [Last("fire") EXCEPT !.reg = k, !.source = regs[k].id]
        /\ UNCHANGED <<regs, providers, providerSubscriptions, attached, listening>>

(***************************************************************************)
(* Specifications.                                                         *)
(***************************************************************************)
\* the operations of TimelineService
NextService ==
    \/ \E provider \in ProviderInputs : RegisterTimelineProvider(provider)
    \/ \E k \in 1..Len(regs) : RevokeRegistration(k)
    \/ \E id \in Ids : UnregisterTimelineProvider(id)
    \/ \E k \in attached, event \in ChangeEvents, editor \in Uris \cup {NoUri} :
           ProviderFiresChange(k, event, editor)

\* the operations of TimelineTreeWidget and the settling of provider promises
NextWidget ==
    \/ \E source \in Ids, uri \in Uris, reset \in BOOLEAN :
           LoadTimelineForSource(source, uri, reset)
    \/ \E uri \in Uris, reset \in BOOLEAN : LoadTimeLine(uri, reset)
    \/ \E call \in BagToSet(pending) :
           \E page \in PagesFor(regs[call.provider].id, call.uri) :
               ProvideTimelineResolves(call, page)
    \/ \E call \in BagToSet(pending), failure \in Failures :
           ProvideTimelineFails(call, failure)

Next == NextService \/ WidgetInit \/ NextWidget

\* the whole system
Spec == Init /\ [][Next]_vars

\* the service from its construction, while no timeline view is open
SpecService == Init /\ [][NextService]_vars

\* no call for one of these sources is suspended: the caller has awaited them
SequentialFor(sources) == \A call \in BagToSet(pending) : call.source \notin sources

\* the widget's operations when each call for a provider is awaited before the
\* next call for that provider is issued
NextSequential ==
    \/ \E source \in Ids, uri \in Uris, reset \in BOOLEAN :
           SequentialFor({source}) /\ LoadTimelineForSource(source, uri, reset)
    \/ \E uri \in Uris, reset \in BOOLEAN :
           SequentialFor(GetSources) /\ LoadTimeLine(uri, reset)
    \/ \E call \in BagToSet(pending) :
           \E page \in PagesFor(regs[call.provider].id, call.uri) :
               ProvideTimelineResolves(call, page)
    \/ \E call \in BagToSet(pending), failure \in Failures :
           ProvideTimelineFails(call, failure)

\* The registries the widget specification starts from: what a host has
\* registered before the timeline view opens.
WidgetRegistries ==
    {<<Provider("A", StringScheme("*"), TRUE, "detach"),
       Provider("B", StringScheme("file"), FALSE, "keep")>>,
     <<Provider("A", ArrayScheme(<<"file">>), TRUE, "throws")>>}

\* the state when TimelineWidget.init has run on one of these registries
InitWidget ==
    /\ regs \in WidgetRegistries
    /\ providers = [id \in Ids |->
           IF \E k \in 1..Len(regs) : regs[k].id = id
           THEN CHOOSE k \in 1..Len(regs) : regs[k].id = id ELSE 0]
    /\ providerSubscriptions = [id \in Ids |->
           IF providers[id] # 0 /\ regs[providers[id]].onDidChange
           THEN providers[id] ELSE 0]
    /\ attached = {k \in 1..Len(regs) : regs[k].onDidChange}
    /\ listening = TRUE
    /\ timelinesBySource = [id \in Ids |-> 0]
    /\ aggs = [r \in Refs |-> NoAggregate]
    /\ pending = EmptyBag
    /\ requests = 0
    /\ firedProviders = <<>>
    /\ firedTimeline = <<>>
    /\ rendered = NoRender
    /\ last = Last("widgetInit")

\* the aggregate store with the view open: loads and provider promises settling
SpecWidget == InitWidget /\ [][NextWidget]_vars

\* the aggregate store when the calls for each provider are issued one after
\* another
SpecSequential == InitWidget /\ [][NextSequential]_vars

\* the state when TimelineWidget.init has run on the registry of one provider
InitSingle ==
    /\ regs = SingleRegistry
    /\ providers = [id \in Ids |-> IF id = regs[1].id THEN 1 ELSE 0]
    /\ providerSubscriptions = [id \in Ids |-> 0]
    /\ attached = {}
    /\ listening = TRUE
    /\ timelinesBySource = [id \in Ids |-> 0]
    /\ aggs = [r \in Refs |-> NoAggregate]
    /\ pending = EmptyBag
    /\ requests = 0
    /\ firedProviders = <<>>
    /\ firedTimeline = <<>>
    /\ rendered = NoRender
    /\ last = Last("widgetInit")

\* The widget's operations when a call without reset is issued only after the
\* earlier calls for its provider have been awaited, while a reset (a refresh, a
\* change of editor, a change event with reset) comes at any time.
NextResetInFlight ==
    \/ \E source \in Ids, uri \in Uris :
           SequentialFor({source}) /\ LoadTimelineForSource(source, uri, FALSE)
    \/ \E source \in Ids, uri \in Uris : LoadTimelineForSource(source, uri, TRUE)
    \/ \E uri \in Uris : SequentialFor(GetSources) /\ LoadTimeLine(uri, FALSE)
    \/ \E uri \in Uris : LoadTimeLine(uri, TRUE)
    \/ \E call \in BagToSet(pending) :
           \E page \in PagesFor(regs[call.provider].id, call.uri) :
               ProvideTimelineResolves(call, page)
    \/ \E call \in BagToSet(pending), failure \in Failures :
           ProvideTimelineFails(call, failure)

\* the aggregate store of one provider, with room for a first page, a call in
\* flight and a reset
SpecResetInFlight == InitSingle /\ [][NextResetInFlight]_vars

\* the open view while the host takes providers out of the registry
NextViewAndRemoval ==
    \/ NextWidget
    \/ \E k \in 1..Len(regs) : RevokeRegistration(k)
    \/ \E id \in Ids : UnregisterTimelineProvider(id)

SpecViewAndRemoval == InitWidget /\ [][NextViewAndRemoval]_vars

(***************************************************************************)
(* Properties.                                                             *)
(***************************************************************************)
IsSortedDescending(items) ==
    \A i \in 1..(Len(items) - 1) : items[i].timestamp >= items[i + 1].timestamp

\* the aggregate a map and a heap hold for a source, with whether there is one
StoredIn(map, heap, source) ==
    IF map[source] = 0 THEN [stored |-> FALSE, aggregate |-> NoAggregate]
    ELSE [stored |-> TRUE, aggregate |-> heap[map[source]]]

\* what the spec requires of the router: the scheme set is the wildcard or
\* holds the URI's scheme
SchemeApplies(scheme, uri) ==
    \E i \in 1..Len(scheme.names) :
        scheme.names[i] = "*" \/ scheme.names[i] = uri.scheme

\* the last operation was a continuation of loadTimelineForSource with a page
SettledWithPage == last.op = "settle" /\ last.outcome = "page"

\* C1: after every successful loadPage without reset, the first page that
\* creates the aggregate included, the items of the provider's aggregate are in
\* non-increasing timestamp order.
C1_SortedAfterEveryPage ==
    (SettledWithPage /\ ~last.reset)
        => IsSortedDescending(Stored(last.source).items)

\* C2: a loadPage with reset=false for an exhausted aggregate (one that exists
\* and whose cursor is absent) asks no provider for the first page again: no
\* suspended call without reset holds an aggregate and a request without cursor.
C2_ExhaustedNotRefetched ==
    \A call \in BagToSet(pending) :
        ~(~call.reset /\ call.timeline # 0 /\ call.options.cursor = Undefined)

\* the step ends a loadTimelineForSource call that yielded no page: the call
\* returned at once because getTimeline returned undefined, or its promise
\* rejected or resolved with undefined
EndsWithoutPage ==
    \/ last'.op = "loadTimelineForSource" /\ last'.outcome = "notApplicable"
    \/ last'.op = "settle" /\ last'.outcome \in Failures

\* a step leaves what is stored for a source as it is
KeepsStored(source) ==
    StoredIn(timelinesBySource', aggs', source) = StoredIn(timelinesBySource, aggs, source)

\* C3 as stated: when a loadPage call yields no page, the aggregate that was
\* stored for the provider when the call began is still stored when it ends,
\* with the same items and cursor, for either value of reset.
C3_NoPageKeepsAggregate ==
    [][(EndsWithoutPage /\ last'.stored)
          => /\ timelinesBySource'[last'.source] # 0
             /\ KeepsStored(last'.source)]_vars

\* C3, amended: the end of a loadPage call that yields no page changes no stored
\* aggregate, for either value of reset; with reset=false the start of the call
\* changes none either, while with reset=true the start of the call removes the
\* aggregate stored for its provider (and only that one), and the failed call
\* does not put it back.
C3_NoPageChangesOnlyByReset ==
    [][/\ (last'.op = "settle" /\ last'.outcome \in Failures)
              => \A s \in Ids : KeepsStored(s)
       /\ (last'.op = "loadTimelineForSource" /\ ~last'.reset)
              => \A s \in Ids : KeepsStored(s)
       /\ (last'.op = "loadTimelineForSource" /\ last'.reset)
              => /\ timelinesBySource'[last'.source] = 0
                 /\ \A s \in Ids \ {last'.source} : KeepsStored(s)]_vars

\* C3 happens: a call without reset on a provider with a stored aggregate ended
\* with its promise rejected, and the aggregate with its items is still stored
C3_Witness ==
    /\ last.op = "settle" /\ last.outcome = "reject"
    /\ ~last.reset /\ last.stored
    /\ timelinesBySource[last.source] # 0
    /\ Stored(last.source).items # <<>>

\* the step merges a page without items into the aggregate the call holds,
\* the call being one without reset
MergesEmptyPage ==
    /\ last'.op = "settle" /\ last'.outcome = "page"
    /\ last'.page.items = <<>>
    /\ ~last'.reset /\ last'.timeline # 0

\* C4 as stated: a successful page with zero items merged into an existing
\* aggregate (reset=false) leaves its items sequence and its cursor as they were.
C4_EmptyPageLeavesAggregate ==
    [][MergesEmptyPage => aggs'[last'.timeline] = aggs[last'.timeline]]_vars

\* C4, amended: a successful page with zero items merged into an existing
\* aggregate (reset=false) adds and removes no item; the items are sorted again
\* by descending timestamp (an unsorted first page gets reordered), the cursor
\* becomes the cursor of the page, absent or not, and the aggregate is (again)
\* the one stored for the provider.
C4_EmptyPageSortsAndSetsCursor ==
    [][MergesEmptyPage
          => /\ aggs'[last'.timeline].items = SortDescending(aggs[last'.timeline].items)
             /\ IsSortedDescending(aggs'[last'.timeline].items)
             /\ aggs'[last'.timeline].cursor = last'.page.cursor
             /\ timelinesBySource'[last'.source] = last'.timeline]_vars

\* C4 happens: an empty page without cursor was merged into an aggregate that
\* holds items, and the aggregate's cursor is now absent
C4_Witness ==
    /\ SettledWithPage /\ last.page.items = <<>> /\ ~last.reset
    /\ last.timeline # 0 /\ last.cursor # Undefined
    /\ aggs[last.timeline].items # <<>>
    /\ aggs[last.timeline].cursor = Undefined

\* C5: getTimeline returns undefined without invoking provideTimeline for an
\* unknown id and for a provider whose scheme, a string or a list, is neither
\* the wildcard nor holds the URI's scheme: every call suspended on a provider
\* is on a URI whose scheme the provider's scheme set applies to.
C5_InapplicableNeverInvoked ==
    \A call \in BagToSet(pending) :
        /\ call.provider # 0
        /\ SchemeApplies(regs[call.provider].scheme, call.uri)

\* C6: registering a provider under a registered id ends the subscription of
\* the provider it replaces (its events are no longer forwarded) and fires
\* exactly one 'added' event for the id.
C6_ReplacementEndsSubscription ==
    (last.op = "register" /\ last.existing # 0)
        => /\ last.existing \notin attached
           /\ firedProviders = <<[added |-> <<last.source>>, removed |-> <<>>]>>

\* C7: the change subscription of a provider is disposed when the provider
\* leaves the registry (unregistered, revoked or replaced), so no listener of
\* the registry stays attached to a provider that is not the registered one.
C7_SubscriptionReleasedOnLeaving ==
    \A k \in 1..Len(regs) : providers[regs[k].id] # k => k \notin attached

\* C8: after a loadPage with reset=true resolved with a page, the aggregate
\* stored for the provider holds exactly that page's items (stamped) and that
\* page's cursor, whatever was accumulated before.
C8_ResetStoresExactlyThePage ==
    (SettledWithPage /\ last.reset)
        => /\ timelinesBySource[last.source] # 0
           /\ Stored(last.source).items = StampSource(last.page.items, last.source)
           /\ Stored(last.source).cursor = last.page.cursor

\* C8 happens: a call with reset, begun while an aggregate was stored for the
\* provider, resolved with a page that has items
C8_Witness ==
    /\ SettledWithPage /\ last.reset /\ last.stored
    /\ last.page.items # <<>>

\* C9: the merged view is kept per provider and resource: the items rendered
\* for a URI were all fetched for that URI, and a request for a URI carries no
\* cursor issued for another URI (calls the provider's scheme applies to).
C9_ViewPerResource ==
    /\ rendered # NoRender
          => \A i \in 1..Len(rendered.items) :
                 rendered.items[i].handle \in HandlesFor(ParseUri(rendered.uri))
    /\ \A call \in BagToSet(pending) :
           SchemeApplies(regs[call.provider].scheme, call.uri)
               => call.options.cursor \in
                      CursorsFor(call.source, call.uri) \cup {Undefined}

\* C10: every item of an aggregate carries the id of the provider the aggregate
\* belongs to as its source, whatever the provider wrote there: the aggregates
\* of the map, and those still held by a suspended call.
C10_ItemsCarryOwnerSource ==
    /\ \A s \in Ids : \A i \in 1..Len(Stored(s).items) :
           Stored(s).items[i].source = s
    /\ \A call \in BagToSet(pending) :
           call.timeline # 0
               => \A i \in 1..Len(aggs[call.timeline].items) :
                      aggs[call.timeline].items[i].source = call.source

\* C10 happens: the aggregate of provider A holds the item the provider
\* returned with source "B" and the one it returned without source
C10_Witness ==
    /\ timelinesBySource["A"] # 0
    /\ \E i \in 1..Len(Stored("A").items) : Stored("A").items[i].handle = "a1"
    /\ \E i \in 1..Len(Stored("A").items) : Stored("A").items[i].handle = "a2"

\* the items of a sequence
Range(items) == {items[i] : i \in 1..Len(items)}

\* a step leaves the suspended calls of the other sources suspended
KeepsOtherCalls(source) ==
    \A call \in BagToSet(pending) :
        call.source # source => CopiesIn(call, pending') = CopiesIn(call, pending)

\* C11: the fan-out is independent per provider.  loadTimeLine(uri, reset)
\* hands the request to every registered provider the router accepts the URI
\* for; when the fetch of one provider resolves with a page, its aggregate is
\* stored with the page's items and rendered in that very step, whatever the
\* calls of the other providers do (they stay suspended); and a fetch that
\* fails changes no aggregate and leaves the calls of the others suspended.
C11_FanOutIndependent ==
    [][/\ last'.op = "loadTimeLine"
           => \A s \in GetSources :
                  GetTimeline(s, last'.uri) # 0
                      => \E call \in BagToSet(pending') :
                             /\ call.source = s /\ call.uri = last'.uri
                             /\ call.reset = last'.reset
                             /\ call.provider = providers[s]
       /\ (last'.op = "settle" /\ last'.outcome = "page")
           => /\ timelinesBySource'[last'.source] # 0
              /\ Range(StampSource(last'.page.items, last'.source))
                     \subseteq Range(StoredIn(timelinesBySource', aggs',
                                              last'.source).aggregate.items)
              /\ rendered'.source = last'.source
              /\ rendered'.uri = UriToString(last'.uri)
              /\ rendered'.items = StoredIn(timelinesBySource', aggs',
                                            last'.source).aggregate.items
              /\ KeepsOtherCalls(last'.source)
       /\ (last'.op = "settle" /\ last'.outcome \in Failures)
           => /\ \A s \in Ids : KeepsStored(s)
              /\ KeepsOtherCalls(last'.source)]_vars

\* C11 happens: after a loadTimeLine over A and B, the fetch of A resolved with
\* items, which are stored and rendered, while the fetch of B is still pending
C11_Witness ==
    /\ SettledWithPage /\ last.source = "A" /\ last.page.items # <<>>
    /\ rendered.source = "A" /\ rendered.items = Stored("A").items
    /\ \E call \in BagToSet(pending) :
           call.source = "B" /\ call.uri = last.uri /\ call.reset = last.reset

\* C12: every event delivered on onDidChangeTimeline because the provider of a
\* registration fired its change event carries that provider's id, and carries
\* reset only when the provider's event did (the event is delivered once).
C12_ForwardedCarriesProviderId ==
    last.op = "fire"
        => /\ Len(firedTimeline) = 1
           /\ firedTimeline[1].id = regs[last.reg].id

\* C13: unregisterTimelineProvider with an id that is not registered changes
\* neither the provider map nor the subscription map (nor the listeners
\* attached to providers), and fires nothing on either event channel.
C13_UnregisterUnknownIsNoOp ==
    [][(last'.op = "unregister" /\ providers[last'.source] = 0)
          => /\ UNCHANGED <<regs, providers, providerSubscriptions, attached>>
             /\ firedProviders' = <<>>
             /\ firedTimeline' = <<>>]_vars

\* C13 happens: an id was unregistered that no provider is registered under,
\* while the subscription map still holds an entry for it (its provider was
\* revoked through its handle) and the other id is registered
C13_Witness ==
    /\ last.op = "unregister" /\ last.existing = 0
    /\ providers[last.source] = 0
    /\ providerSubscriptions[last.source] # 0
    /\ \E id \in Ids : providers[id] # 0

\* C14: revoking the handle that registerTimelineProvider returned removes the
\* provider from the registry (getSources does not list its id afterwards),
\* fires one 'removed' event for its id on onDidChangeProviders and fires
\* nothing on onDidChangeTimeline.
C14_RevokeRemovesAndAnnounces ==
    last.op = "revoke"
        => /\ last.source = regs[last.reg].id
           /\ last.source \notin GetSources
           /\ firedProviders = <<[added |-> <<>>, removed |-> <<last.source>>]>>
           /\ firedTimeline = <<>>

\* C14 happens: the handle of the provider registered under an id was revoked,
\* the provider being one with a change event the registry listens to, while
\* the other id stays registered
C14_Witness ==
    /\ last.op = "revoke" /\ last.existing = last.reg
    /\ last.reg \in attached
    /\ GetSources = Ids \ {last.source}

\* C15: registerTimelineProvider ends the same way whatever the dispose of
\* the provider it replaces does, throwing included: the new provider is the one
\* registered under the id, the registry listens to its change event when it
\* has one (and holds that subscription), and exactly one 'added' event for
\* the id is fired.
C15_RegistersThoughDisposeThrows ==
    last.op = "register"
        => /\ providers[last.source] = last.reg
           /\ regs[last.reg].id = last.source
           /\ regs[last.reg].onDidChange
                  => /\ providerSubscriptions[last.source] = last.reg
                     /\ last.reg \in attached
           /\ firedProviders = <<[added |-> <<last.source>>, removed |-> <<>>]>>
           /\ firedTimeline = <<>>

\* C15 happens: a provider with a change event was registered under the id of
\* a provider whose dispose throws
C15_Witness ==
    /\ last.op = "register" /\ last.existing # 0
    /\ regs[last.existing].disposal = "throws"
    /\ regs[last.reg].onDidChange
    /\ providers[last.source] = last.reg

\* C16: the 'has more' flag given to renderTimeline after a page is merged is
\* true exactly when the cursor of the aggregate is defined after that page,
\* for every cursor a provider can return (the empty string included) and
\* whether or not the page had items.
C16_HasMoreIffCursorDefined ==
    SettledWithPage
        => /\ rendered # NoRender
           /\ rendered.more = (Stored(last.source).cursor # Undefined)

\* a sequence of items as a multiset
BagOf(items) ==
    [x \in Range(items) |-> Cardinality({i \in 1..Len(items) : items[i] = x})]

\* the step ends a loadTimelineForSource call with a page
EndsWithPage == last'.op = "settle" /\ last'.outcome = "page"

\* C17: when the calls for a provider are issued one after another, the pages
\* accumulate one by one.  The first successful page since a reset (or since
\* there was no aggregate) was requested without cursor and the aggregate
\* stored is made of exactly its items and its cursor; every later successful
\* page was requested with the cursor the aggregate had, which is the cursor of
\* the page before, and leaves the aggregate with the multiset union of what it
\* held and the page's items and with the page's cursor; and between two pages
\* no step changes a stored aggregate other than a reset, which removes it.
C17_SequentialPagesAccumulate ==
    [][/\ (EndsWithPage /\ last'.timeline = 0)
           => /\ last'.cursor = Undefined
              /\ timelinesBySource'[last'.source] # 0
              /\ StoredIn(timelinesBySource', aggs', last'.source).aggregate
                     = [items |-> StampSource(last'.page.items, last'.source),
                        cursor |-> last'.page.cursor]
       /\ (EndsWithPage /\ last'.timeline # 0)
           => /\ ~last'.reset
              /\ timelinesBySource[last'.source] = last'.timeline
              /\ timelinesBySource'[last'.source] = last'.timeline
              /\ last'.cursor = aggs[last'.timeline].cursor
              /\ BagOf(aggs'[last'.timeline].items)
                     = BagOf(aggs[last'.timeline].items)
                         (+) BagOf(StampSource(last'.page.items, last'.source))
              /\ aggs'[last'.timeline].cursor = last'.page.cursor
       /\ ~EndsWithPage
           => \A s \in Ids :
                  \/ KeepsStored(s)
                  \/ /\ last'.op \in {"loadTimelineForSource", "loadTimeLine"}
                     /\ last'.reset
                     /\ timelinesBySource'[s] = 0]_vars

\* C17 happens: the second page of a provider was merged; its request carried
\* the cursor of the first page, and the aggregate holds the items of both
C17_Witness ==
    /\ SettledWithPage /\ ~last.reset /\ last.timeline # 0
    /\ last.cursor = "c1"
    /\ Len(last.page.items) = 1
    /\ Len(Stored(last.source).items) = 2
    /\ Stored(last.source).cursor = last.page.cursor

\* C18: two calls without reset for the same provider that overlap while no
\* aggregate is stored for it: the call that resolves last finds the aggregate
\* of the call that resolved first in the map and puts a new aggregate in its
\* place, made of its own page alone (items and cursor); the page of the first
\* call is not in it.
C18_LastWriterWins ==
    [][(/\ EndsWithPage /\ ~last'.reset /\ ~last'.stored /\ last'.timeline = 0
        /\ timelinesBySource[last'.source] # 0)
          => /\ timelinesBySource'[last'.source]
                    \notin {0, timelinesBySource[last'.source]}
             /\ StoredIn(timelinesBySource', aggs', last'.source).aggregate
                    = [items |-> StampSource(last'.page.items, last'.source),
                       cursor |-> last'.page.cursor]]_vars

\* C18 happens: both of two overlapping calls resolved with a page; the second
\* replaced the aggregate of the first
C18_Witness ==
    /\ SettledWithPage /\ ~last.reset /\ ~last.stored /\ last.timeline = 0
    /\ last.replaced
    /\ last.page.items # <<>>
    /\ pending = EmptyBag

\* C19: no aggregate is stored for an id that no provider is registered under:
\* unregistering a provider, by unregisterTimelineProvider or by its handle,
\* destroys the aggregate accumulated for it.
C19_NoAggregateOfUnregistered ==
    \A id \in Ids : providers[id] = 0 => timelinesBySource[id] = 0

\* C20: once a call with reset has resolved with a page, what was accumulated
\* before the reset stays out of the store.  What was accumulated is held by
\* the aggregate object the reset took out of the map; a call without reset
\* that was in flight when the reset was issued still holds that object.  When
\* such a call resolves after the reset has (the map holds the aggregate of the
\* reset, another object), the aggregate stored afterwards is not the object
\* the call holds, and its items are those of the reset's aggregate and of
\* pages merged since.
C20_ResetOutlivesEarlierCall ==
    [][(/\ EndsWithPage /\ ~last'.reset /\ last'.timeline # 0
        /\ timelinesBySource[last'.source] \notin {0, last'.timeline})
          => /\ timelinesBySource'[last'.source] # last'.timeline
             /\ BagOf(StoredIn(timelinesBySource', aggs', last'.source).aggregate.items)
                    \sqsubseteq
                        (BagOf(StoredIn(timelinesBySource, aggs, last'.source).aggregate.items)
                         (+) BagOf(StampSource(last'.page.items, last'.source)))]_vars

\* C21: revoking the handle of a registration removes that registration only:
\* when another provider has since been registered under the same id, it is
\* still registered, and listed by getSources, after the revocation.
C21_RevokeLeavesLaterProvider ==
    (last.op = "revoke" /\ last.existing \notin {0, last.reg})
        => /\ providers[last.source] = last.existing
           /\ last.source \in GetSources

\* the id set after the events of onDidChangeProviders are applied to a set
ReplayProviders(ids, events) ==
    (ids \cup UNION {Range(events[i].added) : i \in 1..Len(events)})
        \ UNION {Range(events[i].removed) : i \in 1..Len(events)}

\* C22: onDidChangeProviders mirrors the registry.  Every operation fires
\* 'removed' only for an id that was registered when the operation began (so
\* a handle revoked again, or revoked after unregisterTimelineProvider took
\* the id out, fires nothing), and the ids of getSources after the operation
\* are those before it with the events it fired applied.
C22_MembershipMirrorsRegistry ==
    [][/\ \A i \in 1..Len(firedProviders') :
              Range(firedProviders'[i].removed) \subseteq GetSources
       /\ GetSources' = ReplayProviders(GetSources, firedProviders')]_vars

====
